---- MODULE Spec2Model ----
(***************************************************************************)
(* A model of podhawk (src/code.py): the update / recreate / healthcheck / *)
(* rollback workflow of main(), the healthcheck loop of health_check and   *)
(* the environment filter of format_envs_cli.                              *)
(*                                                                         *)
(* Strings that the code searches with `in` are sequences of tokens, and   *)
(* `x in s` is "x is a contiguous subsequence of s".  A container id is a  *)
(* pair <<head, tail>>: head stands for its first 12 characters, tail for  *)
(* the rest, so id[:12] is <<head, "">>.                                   *)
(***************************************************************************)
EXTENDS Integers, Sequences, FiniteSets, TLC

VARIABLES
    pc,               \* position of main() in the code
    msg,              \* the final message printed by exitwmsg ("" = none yet)
    exit_code,        \* -1 while running, 0 after exit(0), 1 after an uncaught exception
    rt,               \* the runtime: container id -> "absent" | "running" | "exited"
    ps_raw,           \* what `podman ps --format json` answers
    images_raw,       \* what `podman images --format json` answers
    ctn_list,         \* main: ctn_list
    img_id_name_tag,  \* main: img_id_name_tag
    updated,          \* update_img: updated
    pidx,             \* update_img: position of the for loop in data
    img_updated,      \* main: img_updated
    selected,         \* the argument of ctn_img_do
    to_recreate_cli,  \* inspect_container: ctn_to_recreate / recreate_container: containers_data
    k,                \* position of the for loop of inspect_container, then of recreate_container
    start_new,        \* recreate_container: start_new
    hc_i,             \* health_check: i
    status,           \* health_check: status
    verdicts,         \* the value health_check returned for each element so far
    log,              \* the pull, stop, run, start and rm commands issued so far, in order
    hc_pc,            \* health_check on its own: "idle" | "probe" | "returned"
    hc_n,             \* health_check on its own: i, the probes run so far
    hc_status,        \* health_check on its own: status
    hc_ret,           \* health_check on its own: the value returned ("" = none yet)
    hc_probes,        \* health_check on its own: the outputs of the probes run so far
    env_pc,           \* format_envs_cli on its own: "idle" | "call" | "returned"
    envs_in,          \* format_envs_cli on its own: the list as it was passed
    envs_data,        \* format_envs_cli on its own: envs_data (the list is changed in place)
    envs_cli,         \* format_envs_cli on its own: the value returned
    envs_again,       \* format_envs_cli called again on the list it left: the list after it
    envs_cli_again,   \* format_envs_cli called again on the list it left: the value returned
    rec_pc,           \* containers_to_recreate on its own: "idle" | "call" | "returned"
    rec_list,         \* containers_to_recreate on its own: containers_list
    rec_updated,      \* containers_to_recreate on its own: images_updated
    rec_out           \* containers_to_recreate on its own: the value returned

vars == <<pc, msg, exit_code, rt, ps_raw, images_raw, ctn_list, img_id_name_tag,
          updated, pidx, img_updated, selected, to_recreate_cli, k, start_new,
          hc_i, status, verdicts, log, hc_pc, hc_n, hc_status, hc_ret, hc_probes,
          env_pc, envs_in, envs_data, envs_cli, envs_again, envs_cli_again,
          rec_pc, rec_list, rec_updated, rec_out>>

mainVars == <<pc, msg, exit_code, rt, ps_raw, images_raw, ctn_list, img_id_name_tag,
              updated, pidx, img_updated, selected, to_recreate_cli, k, start_new,
              hc_i, status, verdicts, log>>
hcVars  == <<hc_pc, hc_n, hc_status, hc_ret, hc_probes>>
envVars == <<env_pc, envs_in, envs_data, envs_cli, envs_again, envs_cli_again>>
recVars == <<rec_pc, rec_list, rec_updated, rec_out>>

\* ---------------------------------------------------------------- bounds
MaxImgs == 2          \* images listed by the runtime
MaxCtns == 2          \* containers listed by the runtime
MaxEnvs == 3          \* variables in an inspected Env list
MaxList == 3          \* containers passed to containers_to_recreate on its own
MaxUpd  == 2          \* image names passed to containers_to_recreate on its own

\* ---------------------------------------------------------------- helpers
Range(s) == {s[n] : n \in DOMAIN s}

SeqsUpTo(S, n) == UNION {[1..m -> S] : m \in 0..n}

NoDupSeqs(S, n) == {s \in SeqsUpTo(S, n) :
                      \A a, b \in DOMAIN s : a # b => s[a] # s[b]}

\* Python's `x in s` for strings, on token sequences.
InStr(x, s) == \E a \in 0..(Len(s) - Len(x)) :
                  \A b \in 1..Len(x) : s[a + b] = x[b]

\* ---------------------------------------------------------------- the runtime
NoNames == <<>>       \* JSON null in the "names" field of an image

ImagePool == { [id |-> "d1", names |-> <<"img1">>],
               [id |-> "d2", names |-> <<"img2">>],
               [id |-> "d3", names |-> NoNames] }

PsPool == { [ID |-> <<"c1", "t1">>, Image |-> "img1", Status |-> <<"Up", "2 hours">>],
            [ID |-> <<"c2", "t2">>, Image |-> "img2", Status |-> <<"Up", "5 minutes">>],
            [ID |-> <<"c3", "t3">>, Image |-> "img1", Status |-> <<"Exited", "(0)">>] }

NewHeads == <<"n1", "n2", "n3">>
NewId(j) == <<NewHeads[j], "u">>     \* the id `podman run -d` prints for element j

AllIds == {c.ID : c \in PsPool} \cup {NewId(j) : j \in DOMAIN NewHeads}

NewDigest == "d9"     \* the id of an image that the registry has replaced

\* The containers a reference names: the runtime accepts a full id or a prefix.
Resolve(r, ref) == {c \in AllIds : /\ r[c] # "absent"
                                   /\ c[1] = ref[1]
                                   /\ (ref[2] = "" \/ ref[2] = c[2])}

\* `podman stop ref`: may succeed only on an existing container.
StopOutcomes(r, ref) == IF Resolve(r, ref) = {} THEN {FALSE} ELSE BOOLEAN
RtStop(r, ref, ok) ==
    [c \in AllIds |-> IF ok /\ c \in Resolve(r, ref) /\ r[c] = "running"
                      THEN "exited" ELSE r[c]]

\* `podman start ref`: may succeed only on an existing container.
StartOutcomes(r, ref) == IF Resolve(r, ref) = {} THEN {FALSE} ELSE BOOLEAN
RtStart(r, ref, ok) ==
    [c \in AllIds |-> IF ok /\ c \in Resolve(r, ref) THEN "running" ELSE r[c]]

\* `podman rm ref` (no -f): may succeed only on an existing container that is not running.
RmOutcomes(r, ref) ==
    IF \E c \in Resolve(r, ref) : r[c] = "exited" THEN BOOLEAN ELSE {FALSE}
RtRm(r, ref, ok) ==
    [c \in AllIds |-> IF ok /\ c \in Resolve(r, ref) /\ r[c] = "exited"
                      THEN "absent" ELSE r[c]]

\* `podman run -d cli` for element j: on success a new running container.
RtRun(r, j, ok) ==
    [c \in AllIds |-> IF ok /\ c = NewId(j) THEN "running" ELSE r[c]]

\* `podman pull -q name`, stdout after rstrip(): the unchanged id, a new id,
\* or nothing at all when the pull fails (the error goes to stderr).
PullOutputs(img) == {img[1], NewDigest, ""}

\* ---------------------------------------------------------------- pure functions
\* prepare_containers_list without its test on Status
prepare_all_containers(data) == [n \in DOMAIN data |-> <<data[n].ID, data[n].Image>>]

\* prepare_containers_list
prepare_containers_list(data) ==
    LET IsUp(c) == InStr(<<"Up">>, c.Status)
        kept    == SelectSeq(data, IsUp)
    IN  [n \in DOMAIN kept |-> <<kept[n].ID, kept[n].Image>>]

\* identify_img_name_tag
identify_img_name_tag(data) ==
    LET Named(i) == i.names # NoNames
        kept     == SelectSeq(data, Named)
    IN  [n \in DOMAIN kept |-> <<kept[n].id, kept[n].names[1]>>]

\* containers_to_recreate looping over the updated images first
RECURSIVE containers_by_image(_, _)
containers_by_image(containers_list, images_updated) ==
    IF images_updated = <<>> THEN <<>>
    ELSE LET Uses(c) == c[2] = Head(images_updated)
         IN  SelectSeq(containers_list, Uses)
                \o containers_by_image(containers_list, Tail(images_updated))

\* containers_to_recreate
containers_to_recreate(containers_list, images_updated) ==
    LET Hit(c) == c[2] \in Range(images_updated)
    IN  SelectSeq(containers_list, Hit)

\* id[:12]
Short(id) == <<id[1], "">>

\* update_img, lines 229-230: the body of the loop after the pull
UpdatedAfterPull(upd, img, pull_output) ==
    IF pull_output # img[1] THEN Append(upd, img[2]) ELSE upd

\* update_img with a failed pull raising
PullNextPcRaising(idx, n, pull_output) ==
    IF pull_output = "" THEN "crashed"
    ELSE IF idx < n THEN "pull" ELSE "after_update"

\* update_img: where control goes after the pull of data[idx] (run() never raises
\* on a failed command, so the loop goes on whatever the pull printed)
PullNextPc(idx, n, pull_output) == IF idx < n THEN "pull" ELSE "after_update"

\* health_check with the 'unhealthy' test placed before the 'no healthcheck' test
HcIsNAUnlessUnhealthy(output) ==
    InStr(<<"has no defined healthcheck">>, output) /\ ~InStr(<<"unhealthy">>, output)

\* health_check, line 49: the probe that makes health_check return 'NA' at once
HcIsNA(output) == InStr(<<"has no defined healthcheck">>, output)

\* health_check taking only an output that says 'healthy' for a success
HcStatusNeedsHealthy(st, output) ==
    IF InStr(<<"healthy">>, output) /\ ~InStr(<<"unhealthy">>, output)
    THEN "true" ELSE "false"

\* health_check without its else branch: a good probe leaves status as it was
HcStatusNeverReset(st, output) == IF InStr(<<"unhealthy">>, output) THEN "false" ELSE st

\* health_check, lines 51-54: status after a probe that did not return
HcStatus(st, output) == IF InStr(<<"unhealthy">>, output) THEN "false" ELSE "true"

ProbeBudget == 3      \* range(3)

\* the outputs of `podman healthcheck run`
ProbeOutputs == { <<>>,
                  <<"healthy">>,
                  <<"unhealthy">>,
                  <<"Error: container", "has no defined healthcheck">>,
                  <<"unhealthy", "has no defined healthcheck">>,
                  <<"Error: no such container">> }

\* post_healthcheck with every verdict taking the remove branch
CommitsWhateverTheVerdict(st) == TRUE

\* post_healthcheck without its 'NA' branch
CommitsOnlyOnTrue(st) == InStr(<<"true">>, <<st>>)

\* post_healthcheck: the branches that remove the old container
Commits(st) == InStr(<<"NA">>, <<st>>) \/ InStr(<<"true">>, <<st>>)

\* ---------------------------------------------------------------- main()
\* one command as the log keeps it: j is the element of the batch it
\* belongs to (0 for a pull), out what a pull printed
Cmd(op, ref, j, ok, out) == [op |-> op, ref |-> ref, k |-> j, ok |-> ok, out |-> out]

Terminated == pc \in {"done", "crashed"}

\* exitwmsg
Exit(m) == /\ pc' = "done"
           /\ msg' = m
           /\ exit_code' = 0

\* an exception nothing catches: traceback, exit status 1
Crash == /\ pc' = "crashed"
         /\ exit_code' = 1
         /\ UNCHANGED msg

InitMain ==
    /\ pc = "ps"
    /\ msg = ""
    /\ exit_code = -1
    /\ ps_raw \in NoDupSeqs(PsPool, MaxCtns)
    /\ images_raw \in NoDupSeqs(ImagePool, MaxImgs)
    /\ rt = [c \in AllIds |->
               IF \E n \in DOMAIN ps_raw : ps_raw[n].ID = c
               THEN IF \E n \in DOMAIN ps_raw :
                          ps_raw[n].ID = c /\ InStr(<<"Up">>, ps_raw[n].Status)
                    THEN "running" ELSE "exited"
               ELSE "absent"]
    /\ ctn_list = <<>>
    /\ img_id_name_tag = <<>>
    /\ updated = <<>>
    /\ pidx = 0
    /\ img_updated = <<>>
    /\ selected = <<>>
    /\ to_recreate_cli = <<>>
    /\ k = 0
    /\ start_new = <<"", "">>
    /\ hc_i = 0
    /\ status = "false"
    /\ verdicts = <<>>
    /\ log = <<>>

IdleHc  == hc_pc = "idle" /\ hc_n = 0 /\ hc_status = "false" /\ hc_ret = "" /\ hc_probes = <<>>
IdleEnv == /\ env_pc = "idle" /\ envs_in = <<>> /\ envs_data = <<>> /\ envs_cli = <<>>
           /\ envs_again = <<>> /\ envs_cli_again = <<>>

IdleRec == rec_pc = "idle" /\ rec_list = <<>> /\ rec_updated = <<>> /\ rec_out = <<>>

Init == InitMain /\ IdleHc /\ IdleEnv /\ IdleRec

\* main, lines 276-278: ps()
Ps ==
    /\ pc = "ps"
    /\ ctn_list' = prepare_containers_list(ps_raw)
    /\ pc' = "images"
    /\ UNCHANGED <<hcVars, envVars, recVars>>
    /\ UNCHANGED <<msg, exit_code, rt, ps_raw, images_raw, img_id_name_tag, updated,
                   pidx, img_updated, selected, to_recreate_cli, k, start_new, hc_i,
                   status, verdicts, log>>

\* main, lines 280-285: images(), then update_img or 'No image'
Images ==
    /\ pc = "images"
    /\ img_id_name_tag' = identify_img_name_tag(images_raw)
    /\ IF Len(img_id_name_tag') > 0
       THEN /\ pc' = "pull"
            /\ pidx' = 1
            /\ updated' = <<>>
            /\ UNCHANGED <<msg, exit_code>>
       ELSE /\ Exit("No image")
            /\ UNCHANGED <<pidx, updated>>
    /\ UNCHANGED <<hcVars, envVars, recVars>>
    /\ UNCHANGED <<rt, ps_raw, images_raw, ctn_list, img_updated, selected,
                   to_recreate_cli, k, start_new, hc_i, status, verdicts, log>>

\* update_img, lines 224-231: one turn of the loop
Pull ==
    /\ pc = "pull"
    /\ LET img == img_id_name_tag[pidx] IN
       \E pull_output \in PullOutputs(img) :
          /\ log' = Append(log, Cmd("pull", img[2], 0, pull_output # "", pull_output))
          /\ updated' = UpdatedAfterPull(updated, img, pull_output)
          /\ pc' = PullNextPc(pidx, Len(img_id_name_tag), pull_output)
          /\ IF pc' = "pull"
             THEN pidx' = pidx + 1 /\ UNCHANGED <<img_updated, exit_code>>
             ELSE IF pc' = "after_update"
                  THEN img_updated' = updated' /\ UNCHANGED <<pidx, exit_code>>
                  ELSE exit_code' = 1 /\ UNCHANGED <<pidx, img_updated>>
    /\ UNCHANGED <<hcVars, envVars, recVars>>
    /\ UNCHANGED <<msg, rt, ps_raw, images_raw, ctn_list, img_id_name_tag, selected,
                   to_recreate_cli, k, start_new, hc_i, status, verdicts>>

\* main, lines 286-291, down to the calls of ctn_img_do: inspect_container and
\* recreate_container of an empty list do nothing and print 'Jobs done'
Dispatch ==
    /\ pc = "after_update"
    /\ IF Len(img_updated) = 0
       THEN Exit("No image to update") /\ UNCHANGED <<selected, k, to_recreate_cli>>
       ELSE IF Len(ctn_list) = 0
       THEN Exit("No container found") /\ UNCHANGED <<selected, k, to_recreate_cli>>
       ELSE /\ selected' = containers_to_recreate(ctn_list, img_updated)
            /\ to_recreate_cli' = <<>>
            /\ IF Len(selected') = 0
               THEN Exit("Jobs done") /\ UNCHANGED k
               ELSE pc' = "inspect" /\ k' = 1 /\ UNCHANGED <<msg, exit_code>>
    /\ UNCHANGED <<hcVars, envVars, recVars>>
    /\ UNCHANGED <<rt, ps_raw, images_raw, ctn_list, img_id_name_tag, updated, pidx,
                   img_updated, start_new, hc_i, status, verdicts, log>>

\* the command line inspect_container rebuilds (lines 177-187)
Cli(ctn_image) == [image |-> ctn_image]

\* inspect_container, lines 170-188: one turn of the loop.  loads(...)[0] and the
\* field lookups raise on an answer that lacks them.
Inspect ==
    /\ pc = "inspect"
    /\ LET ctn == selected[k] IN
       \E wellformed \in BOOLEAN :
          IF wellformed
          THEN /\ to_recreate_cli' = Append(to_recreate_cli, <<ctn[1], Cli(ctn[2])>>)
               /\ IF k < Len(selected)
                  THEN k' = k + 1 /\ UNCHANGED pc
                  ELSE k' = 1 /\ pc' = "stop_old"
               /\ UNCHANGED <<msg, exit_code>>
          ELSE Crash /\ UNCHANGED <<to_recreate_cli, k>>
    /\ UNCHANGED <<hcVars, envVars, recVars>>
    /\ UNCHANGED <<rt, ps_raw, images_raw, ctn_list, img_id_name_tag, updated, pidx,
                   img_updated, selected, start_new, hc_i, status, verdicts, log>>

old_ctn_id == to_recreate_cli[k][1]
healthcheck_status == verdicts[Len(verdicts)]

\* recreate_container with the stop run through check_output, like the start
StopNextPcChecked(ok) == IF ok THEN "start_new" ELSE "crashed"

\* recreate_container, lines 73-77: run() does not look at the exit status of
\* `podman stop`, so the start follows whether or not the stop succeeded
StopNextPc(ok) == "start_new"

\* recreate_container, lines 68-75
StopOld ==
    /\ pc = "stop_old"
    /\ \E ok \in StopOutcomes(rt, old_ctn_id) :
          /\ rt' = RtStop(rt, old_ctn_id, ok)
          /\ log' = Append(log, Cmd("stop", old_ctn_id, k, ok, ""))
          /\ pc' = StopNextPc(ok)
    /\ exit_code' = IF pc' = "crashed" THEN 1 ELSE exit_code
    /\ UNCHANGED <<hcVars, envVars, recVars>>
    /\ UNCHANGED <<msg, ps_raw, images_raw, ctn_list, img_id_name_tag,
                   updated, pidx, img_updated, selected, to_recreate_cli, k, start_new,
                   hc_i, status, verdicts>>

\* recreate_container, lines 77-80: check_output raises CalledProcessError when
\* `podman run` fails, and nothing catches it
StartNew ==
    /\ pc = "start_new"
    /\ \E ok \in BOOLEAN :
          /\ rt' = RtRun(rt, k, ok)
          /\ log' = Append(log, Cmd("run", to_recreate_cli[k][2], k, ok, ""))
          /\ IF ok
             THEN /\ start_new' = NewId(k)
                  /\ pc' = "probe"
                  /\ hc_i' = 0
                  /\ status' = "false"
                  /\ UNCHANGED <<msg, exit_code>>
             ELSE Crash /\ UNCHANGED <<start_new, hc_i, status>>
    /\ UNCHANGED <<hcVars, envVars, recVars>>
    /\ UNCHANGED <<ps_raw, images_raw, ctn_list, img_id_name_tag, updated, pidx,
                   img_updated, selected, to_recreate_cli, k, verdicts>>

\* health_check, lines 45-55: one turn of the loop, and the return after the last.
\* i and status are locals of health_check: they are gone once it returns.
Probe ==
    /\ pc = "probe"
    /\ \E output \in ProbeOutputs :
          IF HcIsNA(output)
          THEN /\ verdicts' = Append(verdicts, "NA")
               /\ pc' = "post_healthcheck"
               /\ hc_i' = 0
               /\ status' = "false"
          ELSE IF hc_i + 1 = ProbeBudget
          THEN /\ verdicts' = Append(verdicts, HcStatus(status, output))
               /\ pc' = "post_healthcheck"
               /\ hc_i' = 0
               /\ status' = "false"
          ELSE /\ status' = HcStatus(status, output)
               /\ hc_i' = hc_i + 1
               /\ UNCHANGED <<verdicts, pc>>
    /\ UNCHANGED <<hcVars, envVars, recVars>>
    /\ UNCHANGED <<msg, exit_code, rt, ps_raw, images_raw, ctn_list, img_id_name_tag,
                   updated, pidx, img_updated, selected, to_recreate_cli, k, start_new,
                   log>>

\* recreate_container taking the decision step again when its last command failed
NextElementRetrying ==
    IF ~log'[Len(log')].ok
    THEN pc' = "post_healthcheck" /\ UNCHANGED <<k, msg, exit_code>>
    ELSE IF k < Len(to_recreate_cli)
    THEN k' = k + 1 /\ pc' = "stop_old" /\ UNCHANGED <<msg, exit_code>>
    ELSE Exit("Jobs done") /\ UNCHANGED k

\* recreate_container, lines 67 and 86: the next element, or 'Jobs done'
NextElement ==
    IF k < Len(to_recreate_cli)
    THEN k' = k + 1 /\ pc' = "stop_old" /\ UNCHANGED <<msg, exit_code>>
    ELSE Exit("Jobs done") /\ UNCHANGED k

\* post_healthcheck, lines 18-24, and remove_old_container
RemoveOld ==
    /\ pc = "post_healthcheck"
    /\ Commits(healthcheck_status)
    /\ \E ok \in RmOutcomes(rt, Short(old_ctn_id)) :
          /\ rt' = RtRm(rt, Short(old_ctn_id), ok)
          /\ log' = Append(log, Cmd("rm", Short(old_ctn_id), k, ok, ""))
    /\ NextElement
    /\ UNCHANGED <<hcVars, envVars, recVars>>
    /\ UNCHANGED <<ps_raw, images_raw, ctn_list, img_id_name_tag, updated, pidx,
                   img_updated, selected, to_recreate_cli, start_new, hc_i, status,
                   verdicts>>

\* post_healthcheck, lines 25-29
StopNew ==
    /\ pc = "post_healthcheck"
    /\ ~Commits(healthcheck_status)
    /\ \E ok \in StopOutcomes(rt, Short(start_new)) :
          /\ rt' = RtStop(rt, Short(start_new), ok)
          /\ log' = Append(log, Cmd("stop", Short(start_new), k, ok, ""))
    /\ pc' = "start_old"
    /\ UNCHANGED <<hcVars, envVars, recVars>>
    /\ UNCHANGED <<msg, exit_code, ps_raw, images_raw, ctn_list, img_id_name_tag,
                   updated, pidx, img_updated, selected, to_recreate_cli, k, start_new,
                   hc_i, status, verdicts>>

\* post_healthcheck, lines 30-32
StartOld ==
    /\ pc = "start_old"
    /\ \E ok \in StartOutcomes(rt, Short(old_ctn_id)) :
          /\ rt' = RtStart(rt, Short(old_ctn_id), ok)
          /\ log' = Append(log, Cmd("start", Short(old_ctn_id), k, ok, ""))
    /\ NextElement
    /\ UNCHANGED <<hcVars, envVars, recVars>>
    /\ UNCHANGED <<ps_raw, images_raw, ctn_list, img_id_name_tag, updated, pidx,
                   img_updated, selected, to_recreate_cli, start_new, hc_i, status,
                   verdicts>>

Next ==
    \/ Ps
    \/ Images
    \/ Pull
    \/ Dispatch
    \/ Inspect
    \/ StopOld
    \/ StartNew
    \/ Probe
    \/ RemoveOld
    \/ StopNew
    \/ StartOld

Spec == Init /\ [][Next]_vars

\* The program is one thread and every runtime command returns: a step that
\* can be taken is taken.
SpecFair == Spec /\ WF_vars(Next)

\* ---------------------------------------------------------------- health_check on its own
IdleMain ==
    /\ pc = "idle"
    /\ msg = ""
    /\ exit_code = -1
    /\ ps_raw = <<>>
    /\ images_raw = <<>>
    /\ rt = [c \in AllIds |-> "absent"]
    /\ ctn_list = <<>>
    /\ img_id_name_tag = <<>>
    /\ updated = <<>>
    /\ pidx = 0
    /\ img_updated = <<>>
    /\ selected = <<>>
    /\ to_recreate_cli = <<>>
    /\ k = 0
    /\ start_new = <<"", "">>
    /\ hc_i = 0
    /\ status = "false"
    /\ verdicts = <<>>
    /\ log = <<>>

\* health_check, line 44
InitHC ==
    /\ IdleMain
    /\ IdleEnv
    /\ IdleRec
    /\ hc_pc = "probe"
    /\ hc_n = 0
    /\ hc_status = "false"
    /\ hc_ret = ""
    /\ hc_probes = <<>>

\* health_check, lines 45-55: one turn of the loop, and the return after the last
HealthCheckProbe ==
    /\ hc_pc = "probe"
    /\ \E output \in ProbeOutputs :
          /\ hc_probes' = Append(hc_probes, output)
          /\ hc_n' = hc_n + 1
          /\ IF HcIsNA(output)
             THEN /\ hc_ret' = "NA"
                  /\ hc_pc' = "returned"
                  /\ UNCHANGED hc_status
             ELSE /\ hc_status' = HcStatus(hc_status, output)
                  /\ IF hc_n' = ProbeBudget
                     THEN hc_ret' = hc_status' /\ hc_pc' = "returned"
                     ELSE UNCHANGED <<hc_ret, hc_pc>>
    /\ UNCHANGED <<mainVars, envVars, recVars>>

NextHC == HealthCheckProbe

SpecHC == InitHC /\ [][NextHC]_vars

\* ---------------------------------------------------------------- format_envs_cli on its own
\* line 99: the prefixes, in the order of the tuple
added_automatically ==
    << <<"PATH", "=">>, <<"TERM", "=">>, <<"HOSTNAME", "=">>, <<"container", "=">>,
       <<"GODEBUG", "=">>, <<"XDG_CACHE_", "HOME", "=">>, <<"HOME", "=">> >>

\* the variables an inspected Env list is drawn from
EnvPool == { <<"PATH", "=", "/usr/bin">>,
             <<"TERM", "=", "xterm">>,
             <<"HOSTNAME", "=", "web">>,
             <<"container", "=", "podman">>,
             <<"GODEBUG", "=", "x">>,
             <<"XDG_CACHE_", "HOME", "=", "/cache">>,
             <<"HOME", "=", "/root">>,
             <<"JAVA_", "HOME", "=", "/jdk">>,
             <<"APP", "=", "1">>,
             <<"OPTS", "=", "-D", "HOME", "=", "/x">> }

\* lines 101-103: every turn of the loop assigns envs_to_remove anew
RECURSIVE EnvsToRemoveFrom(_, _, _)
EnvsToRemoveFrom(n, envs, acc) ==
    IF n > Len(added_automatically) THEN acc
    ELSE LET Has(env) == InStr(added_automatically[n], env)
         IN  EnvsToRemoveFrom(n + 1, envs, SelectSeq(envs, Has))

envs_to_remove(envs) == EnvsToRemoveFrom(1, envs, <<>>)

\* list.remove(x): drops the first element equal to x
RECURSIVE ListRemove(_, _)
ListRemove(s, x) ==
    IF s = <<>> THEN <<>>
    ELSE IF Head(s) = x THEN Tail(s)
    ELSE <<Head(s)>> \o ListRemove(Tail(s), x)

\* lines 104-105 with the loop left after its first turn
RemoveOnlyTheFirst(s, rem) == IF rem = <<>> THEN s ELSE ListRemove(s, Head(rem))

\* lines 104-105
RECURSIVE RemoveEach(_, _)
RemoveEach(s, rem) ==
    IF rem = <<>> THEN s ELSE RemoveEach(ListRemove(s, Head(rem)), Tail(rem))

\* line 106: ' '.join of one "-e env" per variable left ('' when none is left)
JoinEnvs(envs) == [n \in DOMAIN envs |-> <<"-e", envs[n]>>]

InitEnv ==
    /\ IdleMain
    /\ IdleHc
    /\ IdleRec
    /\ env_pc = "call"
    /\ envs_in \in SeqsUpTo(EnvPool, MaxEnvs)
    /\ envs_data = envs_in
    /\ envs_cli = <<>>
    /\ envs_again = <<>>
    /\ envs_cli_again = <<>>

\* format_envs_cli, lines 98-108
FormatEnvsCli ==
    /\ env_pc = "call"
    /\ IF Len(envs_data) > 0
       THEN /\ envs_data' = RemoveEach(envs_data, envs_to_remove(envs_data))
            /\ envs_cli' = JoinEnvs(envs_data')
       ELSE /\ envs_cli' = <<>>
            /\ UNCHANGED envs_data
    /\ env_pc' = "returned"
    /\ UNCHANGED <<envs_in, envs_again, envs_cli_again, mainVars, hcVars, recVars>>

\* format_envs_cli, lines 98-108, called on the list the first call left behind
FormatEnvsCliAgain ==
    /\ env_pc = "returned"
    /\ IF Len(envs_data) > 0
       THEN /\ envs_again' = RemoveEach(envs_data, envs_to_remove(envs_data))
            /\ envs_cli_again' = JoinEnvs(envs_again')
       ELSE /\ envs_cli_again' = <<>>
            /\ envs_again' = envs_data
    /\ env_pc' = "again"
    /\ UNCHANGED <<envs_in, envs_data, envs_cli, mainVars, hcVars, recVars>>

NextEnv ==
    \/ FormatEnvsCli
    \/ FormatEnvsCliAgain

SpecEnv == InitEnv /\ [][NextEnv]_vars

\* ---------------------------------------------------------------- containers_to_recreate on its own
\* the (id, image) pairs a container list is drawn from
RecPool == { << <<"a1", "t1">>, "img1" >>,
             << <<"b2", "t2">>, "img2" >>,
             << <<"c3", "t3">>, "img1" >>,
             << <<"d4", "t4">>, "img3" >> }

RecImages == {"img1", "img2", "img3"}

InitRec ==
    /\ IdleMain
    /\ IdleHc
    /\ IdleEnv
    /\ rec_pc = "call"
    /\ rec_list \in NoDupSeqs(RecPool, MaxList)
    /\ rec_updated \in NoDupSeqs(RecImages, MaxUpd)
    /\ rec_out = <<>>

\* containers_to_recreate, lines 209-210
ContainersToRecreate ==
    /\ rec_pc = "call"
    /\ rec_out' = containers_to_recreate(rec_list, rec_updated)
    /\ rec_pc' = "returned"
    /\ UNCHANGED <<rec_list, rec_updated, mainVars, hcVars, envVars>>

NextRec == ContainersToRecreate

SpecRec == InitRec /\ [][NextRec]_vars

\* ================================================================ properties
IsPull(e) == e.op = "pull"
Pulls == SelectSeq(log, IsPull)

\* the commands of element j of the batch, in the order they were issued
ElemLog(j) == LET Mine(e) == e.k = j IN SelectSeq(log, Mine)

\* what was issued for element j after `podman stop old` and `podman run`
Decision(j) == SubSeq(ElemLog(j), 3, Len(ElemLog(j)))

OldId(j) == to_recreate_cli[j][1]

\* element j has a verdict and its decision step is over
Finished(j) == /\ j <= Len(verdicts)
               /\ (k > j \/ pc = "done")

OpsOf(es) == [n \in DOMAIN es |-> <<es[n].op, es[n].ref>>]

IsPrefix(a, b) == Len(a) <= Len(b) /\ \A n \in DOMAIN a : a[n] = b[n]

\* C1: when `podman run` fails for one element of the batch, the later elements
\* are still stopped/started and the run ends with 'Jobs done'.
C1_StartFailureAbortsOneContainer ==
    Terminated =>
      \A n \in DOMAIN log :
         (log[n].op = "run" /\ ~log[n].ok) =>
            /\ msg = "Jobs done"
            /\ \A j \in (log[n].k + 1)..Len(to_recreate_cli) :
                  \E m \in DOMAIN log : log[m].op = "stop" /\ log[m].k = j

\* C2: after `podman run` failed for an element, its old container is running.
C2_OldRunningAfterStartFailure ==
    \A n \in DOMAIN log :
       (log[n].op = "run" /\ ~log[n].ok) => rt[OldId(log[n].k)] = "running"

\* C3: on verdict 'false' the decision step issues stop(new) then start(old) and
\* no rm for that element; when both succeed the old container is running and
\* the new one is stopped and still there.
C3_Rollback ==
    \A j \in 1..Len(verdicts) :
       verdicts[j] = "false" =>
          LET want == << <<"stop", Short(NewId(j))>>, <<"start", Short(OldId(j))>> >>
              d    == Decision(j)
          IN  /\ IsPrefix(OpsOf(d), want)
              /\ \A n \in DOMAIN log : log[n].k = j => log[n].op # "rm"
              /\ Finished(j) =>
                    /\ OpsOf(d) = want
                    /\ (d[1].ok /\ d[2].ok) =>
                          /\ rt[OldId(j)] = "running"
                          /\ rt[NewId(j)] = "exited"

C3_Witness ==
    /\ pc = "done"
    /\ \E j \in 1..Len(verdicts) :
          /\ verdicts[j] = "false"
          /\ Len(Decision(j)) = 2
          /\ Decision(j)[1].ok
          /\ Decision(j)[2].ok
          /\ rt[OldId(j)] = "running"

\* C4 (as amended): rm(old) is issued iff the verdict is 'true' or 'NA', never
\* before the verdict and never on the new container; it is then the only
\* command of the decision step, and when it succeeds the element ends with the
\* new container running and the old one gone.
C4_Commit ==
    /\ \A n \in DOMAIN log :
          log[n].op = "rm" =>
             /\ log[n].k <= Len(verdicts)
             /\ verdicts[log[n].k] \in {"true", "NA"}
             /\ log[n].ref = Short(OldId(log[n].k))
             /\ log[n].ref # Short(NewId(log[n].k))
    /\ \A j \in 1..Len(verdicts) :
          (Finished(j) /\ verdicts[j] \in {"true", "NA"}) =>
             /\ OpsOf(Decision(j)) = << <<"rm", Short(OldId(j))>> >>
             /\ Decision(j)[1].ok =>
                   /\ rt[OldId(j)] = "absent"
                   /\ rt[NewId(j)] = "running"

C4_Witness ==
    /\ pc = "done"
    /\ \E j \in 1..Len(verdicts) :
          /\ verdicts[j] = "NA"
          /\ Len(Decision(j)) = 1
          /\ Decision(j)[1].op = "rm"
          /\ Decision(j)[1].ok
          /\ rt[OldId(j)] = "absent"

\* C4 as stated: a verdict of 'true' or 'NA' always ends with the new container
\* running and the old one gone.
C4_CommitAlwaysEndsClean ==
    \A j \in 1..Len(verdicts) :
       (Finished(j) /\ verdicts[j] \in {"true", "NA"}) =>
          /\ rt[OldId(j)] = "absent"
          /\ rt[NewId(j)] = "running"

\* a probe output that carries the given phrase
Reports(output, phrase) == \E n \in DOMAIN output : output[n] = phrase
ReportsNoHealthcheck(output) == Reports(output, "has no defined healthcheck")

\* C5: when none of the probes reports 'no defined healthcheck', health_check
\* runs exactly 3 probes and returns the classification of the third alone.
C5_LastWriteWins ==
    /\ hc_pc = "probe" => hc_n < ProbeBudget
    /\ (/\ hc_pc = "returned"
        /\ \A n \in DOMAIN hc_probes : ~ReportsNoHealthcheck(hc_probes[n]))
       => /\ hc_n = ProbeBudget
          /\ Len(hc_probes) = ProbeBudget
          /\ hc_ret = IF Reports(hc_probes[ProbeBudget], "unhealthy")
                      THEN "false" ELSE "true"

C5_Witness ==
    /\ hc_pc = "returned"
    /\ hc_probes = << <<"unhealthy">>, <<"unhealthy">>, <<"healthy">> >>
    /\ hc_ret = "true"

\* C6: the first probe that reports 'no defined healthcheck' ends health_check
\* with 'NA', whatever the earlier probes said, and no probe follows it.
C6_ShortCircuit ==
    \A n \in DOMAIN hc_probes :
       (/\ ReportsNoHealthcheck(hc_probes[n])
        /\ \A m \in 1..(n - 1) : ~ReportsNoHealthcheck(hc_probes[m]))
       => /\ hc_pc = "returned"
          /\ hc_ret = "NA"
          /\ hc_n = n
          /\ Len(hc_probes) = n

C6_Witness ==
    /\ hc_pc = "returned"
    /\ hc_ret = "NA"
    /\ hc_n = 2
    /\ hc_probes = << <<"unhealthy">>, <<"unhealthy", "has no defined healthcheck">> >>

Count(es, op, ref) == Cardinality({n \in DOMAIN es : es[n].op = op /\ es[n].ref = ref})

\* C7: once the batch has been started, whatever the commands answer, every
\* selected container is stopped, started and decided exactly once, in list
\* order, each element finished before the next begins, and every pull comes
\* before the first stop.
C7_ExactlyOnceInOrder ==
    (Terminated /\ \E n \in DOMAIN log : log[n].op = "stop") =>
       /\ \A j \in 1..Len(selected) :
             /\ Count(ElemLog(j), "stop", selected[j][1]) = 1
             /\ Cardinality({n \in DOMAIN log : log[n].op = "run" /\ log[n].k = j}) = 1
             /\ Finished(j)
       /\ \A n, m \in DOMAIN log : n < m => log[n].k <= log[m].k

\* C8: update_img returns, in input order, exactly the names of the images whose
\* pull printed an id other than the recorded one; a pull that printed the same
\* id, or failed and printed no id, is not reported.
C8_UpdatedAreTheChangedImages ==
    pc \in {"after_update", "inspect", "stop_old", "done"} =>
       LET Changed(n) == Pulls[n].ok /\ Pulls[n].out # img_id_name_tag[n][1]
           idx        == SelectSeq([n \in 1..Len(img_id_name_tag) |-> n], Changed)
       IN  img_updated = [n \in DOMAIN idx |-> img_id_name_tag[idx[n]][2]]

\* C9: update_img pulls every input image once, in input order, and returns,
\* whichever pulls fail.
C9_EveryImageIsPulled ==
    /\ \A n \in DOMAIN Pulls :
          n <= Len(img_id_name_tag) /\ Pulls[n].ref = img_id_name_tag[n][2]
    /\ pc = "pull" => Len(Pulls) = pidx - 1
    /\ (pc \notin {"ps", "images", "pull"}) => Len(Pulls) = Len(img_id_name_tag)

C9_Witness ==
    /\ pc = "after_update"
    /\ Len(Pulls) = 2
    /\ ~Pulls[1].ok

\* the key of a variable: what stands before its first "="
RECURSIVE KeyOf(_)
KeyOf(env) == IF env = <<>> \/ Head(env) = "=" THEN <<>>
              ELSE <<Head(env)>> \o KeyOf(Tail(env))

Denylist == { <<"PATH">>, <<"TERM">>, <<"HOSTNAME">>, <<"container">>, <<"GODEBUG">>,
              <<"XDG_CACHE_", "HOME">>, <<"HOME">> }

\* C10: format_envs_cli emits exactly the variables whose key is not denylisted,
\* verbatim and in their original order.
C10_DenylistFiltering ==
    env_pc = "returned" =>
       LET Kept(env) == KeyOf(env) \notin Denylist
           want      == SelectSeq(envs_in, Kept)
       IN  envs_cli = [n \in DOMAIN want |-> <<"-e", want[n]>>]

\* C11: filtering is idempotent: format_envs_cli applied to the list it has
\* already filtered leaves the list as it is and renders the same fragment.
C11_FilterIdempotent ==
    env_pc = "again" => /\ envs_again = envs_data
                        /\ envs_cli_again = envs_cli

C11_Witness ==
    /\ env_pc = "again"
    /\ Len(envs_in) = MaxEnvs
    /\ Len(envs_data) = 1
    /\ envs_again = envs_data

\* the positions of rec_list whose image is one of the updated images
RecHits == {n \in DOMAIN rec_list : \E u \in DOMAIN rec_updated :
                                       rec_list[n][2] = rec_updated[u]}

\* the i-th smallest position of RecHits
RecHit(i) == CHOOSE n \in RecHits : Cardinality({m \in RecHits : m < n}) = i - 1

\* C12: containers_to_recreate returns exactly the snapshots whose image is one
\* of the updated images, each once, in the order of the input list.
C12_OrderPreservingFilter ==
    rec_pc = "returned" =>
       /\ Len(rec_out) = Cardinality(RecHits)
       /\ \A i \in DOMAIN rec_out : rec_out[i] = rec_list[RecHit(i)]

C12_Witness ==
    /\ rec_pc = "returned"
    /\ rec_list = << << <<"a1", "t1">>, "img1" >>,
                     << <<"b2", "t2">>, "img2" >>,
                     << <<"c3", "t3">>, "img1" >> >>
    /\ rec_updated = <<"img1">>
    /\ rec_out = << << <<"a1", "t1">>, "img1" >>, << <<"c3", "t3">>, "img1" >> >>

\* element j's `podman stop old` failed
StopOldFailed(j) == Len(ElemLog(j)) >= 1 /\ ~ElemLog(j)[1].ok

HasRun(j) == \E n \in DOMAIN log : log[n].op = "run" /\ log[n].k = j

\* C13: a failed stop(old) does not end the element's workflow: the start of
\* the new container follows, and once that start has succeeded the healthcheck
\* and the decision follow too.
C13_StopIsBestEffort ==
    \A j \in 1..Len(to_recreate_cli) :
       StopOldFailed(j) =>
          /\ ElemLog(j)[1].op = "stop" /\ ElemLog(j)[1].ref = OldId(j)
          /\ HasRun(j) \/ (k = j /\ pc = "start_new")
          /\ (HasRun(j) /\ ElemLog(j)[2].ok) =>
                \/ (k = j /\ pc \in {"probe", "post_healthcheck", "start_old"})
                \/ (Finished(j) /\ Len(Decision(j)) >= 1)

C13_Witness ==
    /\ pc = "done"
    /\ msg = "Jobs done"
    /\ StopOldFailed(1)
    /\ HasRun(1)
    /\ Finished(1)
    /\ Len(Decision(1)) >= 1

FinalMessages == {"No image", "No image to update", "No container found", "Jobs done"}

\* C14: however the runtime commands turn out, the program ends with exit
\* status 0 after printing one of the four final messages.
C14_AlwaysNormalCompletion ==
    Terminated => (exit_code = 0 /\ msg \in FinalMessages)

\* the program ended inside inspect_container, on the answer for selected[k]
InspectRaised == pc = "crashed" /\ Len(to_recreate_cli) < Len(selected)

\* C15: a malformed inspect answer for one selected container is an error for
\* that container alone: nothing is stopped or started for it, no entry is
\* emitted for it, and every other selected container is still recreated.
C15_MalformedInspectIsConfined ==
    InspectRaised =>
       /\ \A n \in DOMAIN to_recreate_cli : to_recreate_cli[n][1] # selected[k][1]
       /\ \A n \in DOMAIN log :
             log[n].op \in {"stop", "start", "rm"} => log[n].ref[1] # selected[k][1][1]
       /\ \A j \in DOMAIN selected :
             j # k => \E n \in DOMAIN log :
                         log[n].op = "stop" /\ log[n].ref = selected[j][1]

PoolIds == {c.ID : c \in PsPool}

ListedUp(c) == \E n \in DOMAIN ps_raw :
                  ps_raw[n].ID = c /\ Reports(ps_raw[n].Status, "Up")

\* listed with a running status, and on an image update_img reported
Eligible(c) == \E n \in DOMAIN ps_raw :
                  /\ ps_raw[n].ID = c
                  /\ Reports(ps_raw[n].Status, "Up")
                  /\ \E u \in DOMAIN img_updated : img_updated[u] = ps_raw[n].Image

\* the state the runtime had a container in when it was listed
ListedState(c) == IF ListedUp(c) THEN "running"
                  ELSE IF \E n \in DOMAIN ps_raw : ps_raw[n].ID = c THEN "exited"
                  ELSE "absent"

\* C16: stop, start and rm reach, among the containers that existed when the
\* run began, only those listed as running on an updated image; a replacement
\* is run only for such a container, from its image; every other container is
\* left in the state it was listed in.
C16_OnlyEligibleTouched ==
    /\ \A n \in DOMAIN log :
          /\ log[n].op \in {"stop", "start", "rm"} =>
                \A c \in PoolIds : c[1] = log[n].ref[1] => Eligible(c)
          /\ log[n].op = "run" =>
                /\ Eligible(OldId(log[n].k))
                /\ \E m \in DOMAIN ps_raw : /\ ps_raw[m].ID = OldId(log[n].k)
                                            /\ ps_raw[m].Image = log[n].ref.image
    /\ \A c \in PoolIds : ~Eligible(c) => rt[c] = ListedState(c)

C16_Witness ==
    /\ pc = "done"
    /\ \E c, d \in PoolIds :
          /\ \E n \in DOMAIN ps_raw : ps_raw[n].ID = c
          /\ ~Eligible(c)
          /\ rt[c] = ListedState(c)
          /\ Eligible(d)
          /\ \E n \in DOMAIN log : log[n].op = "stop" /\ log[n].ref = d

\* C17: a probe output is NotApplicable when it carries the 'no defined
\* healthcheck' sentinel (looked for first), else Unhealthy when it carries
\* 'unhealthy', else Healthy, whatever else it says; as the last attempt,
\* Healthy and NotApplicable take the remove branch, Unhealthy does not.
C17_ProbeClassification ==
    Len(hc_probes) > 0 =>
       LET o == hc_probes[Len(hc_probes)] IN
       IF ReportsNoHealthcheck(o)
       THEN hc_pc = "returned" /\ hc_ret = "NA" /\ Commits(hc_ret)
       ELSE IF Reports(o, "unhealthy")
       THEN /\ hc_status = "false"
            /\ hc_pc = "returned" => (hc_ret = "false" /\ ~Commits(hc_ret))
       ELSE /\ hc_status = "true"
            /\ hc_pc = "returned" => (hc_ret = "true" /\ Commits(hc_ret))

C17_Witness ==
    /\ hc_pc = "returned"
    /\ hc_probes = << <<"unhealthy">>, <<>>, <<"Error: no such container">> >>
    /\ hc_ret = "true"
    /\ Commits(hc_ret)

\* the commands issued for element j with the given op and reference
Issued(j, op, ref) == Count(ElemLog(j), op, ref)

\* per element: at most one stop(old) and one run, then either one rm(old) or
\* one stop(new) followed by one start(old), and never more than 3 probes
WorkIsBounded ==
    /\ hc_i < ProbeBudget
    /\ \A j \in 1..Len(to_recreate_cli) :
          /\ Issued(j, "stop", OldId(j)) <= 1
          /\ Cardinality({n \in DOMAIN log : log[n].op = "run" /\ log[n].k = j}) <= 1
          /\ Len(ElemLog(j)) >= 1 =>
                (ElemLog(j)[1].op = "stop" /\ ElemLog(j)[1].ref = OldId(j))
          /\ Len(ElemLog(j)) >= 2 => ElemLog(j)[2].op = "run"
          /\ \/ IsPrefix(OpsOf(Decision(j)), << <<"rm", Short(OldId(j))>> >>)
             \/ IsPrefix(OpsOf(Decision(j)),
                         << <<"stop", Short(NewId(j))>>, <<"start", Short(OldId(j))>> >>)

\* C18: a failed stop(new), start(old) or rm(old) is not retried and starts no
\* further rollback, so the work per element is bounded, and the run ends.
C18_NoRetryAndTermination == []WorkIsBounded /\ <>Terminated

C18_Witness ==
    /\ pc = "done"
    /\ \E j \in 1..Len(verdicts) :
          /\ Len(Decision(j)) = 2
          /\ ~Decision(j)[1].ok
          /\ ~Decision(j)[2].ok

\* some pull printed an id other than the recorded one
SomePullChangedAnId ==
    \E n \in DOMAIN Pulls : Pulls[n].ok /\ Pulls[n].out # img_id_name_tag[n][1]

SomeRunningContainerListed ==
    \E n \in DOMAIN ps_raw : Reports(ps_raw[n].Status, "Up")

\* C19: the final message follows a fixed priority chain: 'No image' iff the
\* image list is empty, else 'No image to update' iff no pull changed an image
\* id, else 'No container found' iff no running container was listed, else
\* 'Jobs done'; the pulls come before the container check, and a container is
\* stopped only on the path that ends with 'Jobs done'.
C19_OutcomePriorityChain ==
    Terminated =>
       /\ msg = IF Len(img_id_name_tag) = 0 THEN "No image"
                ELSE IF ~SomePullChangedAnId THEN "No image to update"
                ELSE IF ~SomeRunningContainerListed THEN "No container found"
                ELSE "Jobs done"
       /\ msg = "No container found" => Len(Pulls) = Len(img_id_name_tag)
       /\ (\E n \in DOMAIN log : log[n].op = "stop") => msg = "Jobs done"

====
